---- MODULE Spec2Model ----
(***************************************************************************)
(* Seeding lifecycle manager of akira: internal/core/seeding_service.go.   *)
(*                                                                         *)
(* Time is a natural number of clock units; 0 is the zero time.Time        *)
(* (IsZero).  The tracking table is a Go map, modelled as a function whose *)
(* domain is the set of tracked hashes.  Code that runs between            *)
(* dataMutex.Lock() and the matching Unlock() is one action; a goroutine   *)
(* that calls SaveTrackingData (RLock) while it holds the write lock       *)
(* itself never proceeds, and dataMutex then names that goroutine forever. *)
(***************************************************************************)
EXTENDS Integers, FiniteSets, Sequences, TLC

\* ------------------------------------------------------------------------
\* Bounds of the model
\* ------------------------------------------------------------------------
MaxTime == 2

MaxPendingSaves == 1

Hashes == {"abc123", "zzz999"}

\* (hash, name) arguments StartTracking is called with
TrackArgs == { <<"abc123", "Foo">>, <<"abc123", "Bar">>, <<"zzz999", "Baz">> }

\* hash lists ForceStopSeeding is called with
ForceArgs == { {}, {"abc123"}, {"abc123", "zzz999"} }

\* config.Seeding.TimeMultiplier (a float64 > 0), as the fraction num/den
TimeMultiplier == [num |-> 1, den |-> 2]

\* Live torrents the provider can report (State, Progress in percent)
Torrents ==
  { [State |-> "downloading", Progress |-> 50],
    [State |-> "uploading",   Progress |-> 100],
    [State |-> "pausedUP",    Progress |-> 100] }

VARIABLES
  now,            \* time.Now()
  trackingData,   \* ss.trackingData: hash -> SeedingTrackingData
  trackingFile,   \* content of config.Seeding.TrackingDataFile
  pendingSaves,   \* goroutines spawned by Start/StopTracking, not yet run
  dataMutex,      \* "unlocked", or the handler stuck holding the write lock
  runningMutex,   \* "unlocked", or the handler stuck holding it
  isRunning,      \* ss.isRunning
  stopChan,       \* "open" or "closed"
  ticker,         \* "nil", "active" or "stopped"
  bgSelect,       \* backgroundProcessor goroutines waiting in select
  bgFetched,      \* ... that fetched the torrent list and wait for the lock
  lastCall,       \* the last handler that ran: op, hashes passed to
                  \* PauseTorrents (StartTracking/StopTracking: the
                  \* argument), returned error, log line, for a tick
                  \* the torrent state seen for each hash it paused, for
                  \* GetSeedingStatus the *SeedingStatus it returned,
                  \* whether it called PauseTorrents holding dataMutex
  panicked,       \* the process died of a runtime panic
  config,         \* the *config.Config the service was given
  ctxDone,        \* the context passed to Start has been cancelled
  snapshot        \* the map a GetTrackedTorrents call returned to its caller

vars == << now, trackingData, trackingFile, pendingSaves, dataMutex,
           runningMutex, isRunning, stopChan, ticker, bgSelect, bgFetched,
           lastCall, panicked, config, ctxDone, snapshot >>

\* ------------------------------------------------------------------------
\* time.Time, time.Duration
\* ------------------------------------------------------------------------
ZeroTime == 0

IsZero(t) == t = ZeroTime

After(t, u) == t > u

Sub(t, u) == t - u

\* time.Duration(float64(d) * m): the conversion truncates toward zero
ScaleDuration(d, m) ==
  IF d >= 0 THEN (d * m.num) \div m.den
            ELSE 0 - (((0 - d) * m.num) \div m.den)

\* ------------------------------------------------------------------------
\* qbittorrent.Torrent
\* ------------------------------------------------------------------------
IsSeeding(t) ==
  t.State \in {"uploading", "stalledUP", "checkingUP", "forcedUP", "queuedUP"}

IsCompleted(t) == t.Progress >= 100

\* every torrent list the provider may return, keyed by hash
TorrentMaps ==
  UNION { [S -> Torrents] : S \in SUBSET Hashes }

\* ------------------------------------------------------------------------
\* The tracking table
\* ------------------------------------------------------------------------
Tracked(h) == h \in DOMAIN trackingData

NewTrackingData(h, n, t) ==
  [ Hash                 |-> h,
    Name                 |-> n,
    DownloadStartTime    |-> t,
    DownloadCompleteTime |-> ZeroTime,
    DownloadDuration     |-> 0,
    SeedingStopTime      |-> ZeroTime,
    AutoStopped          |-> FALSE,
    CreatedAt            |-> t,
    UpdatedAt            |-> t ]

MapPut(m, k, v) ==
  [x \in (DOMAIN m) \cup {k} |-> IF x = k THEN v ELSE m[x]]

MapDelete(m, k) ==
  [x \in (DOMAIN m) \ {k} |-> m[x]]

EmptyMap == [x \in {} |-> 0]

\* ------------------------------------------------------------------------
\* Persistence: json.MarshalIndent / json.Unmarshal of the table
\* ------------------------------------------------------------------------
\* variant: the auto_stopped field is not written (a `json:"-"` tag)
MarshalRecordNoAutoStopped(r) ==
  [ hash                   |-> r.Hash,
    name                   |-> r.Name,
    download_start_time    |-> r.DownloadStartTime,
    download_complete_time |-> r.DownloadCompleteTime,
    download_duration      |-> r.DownloadDuration,
    seeding_stop_time      |-> r.SeedingStopTime,
    auto_stopped           |-> FALSE,
    created_at             |-> r.CreatedAt,
    updated_at             |-> r.UpdatedAt ]

MarshalRecord(r) ==
  [ hash                   |-> r.Hash,
    name                   |-> r.Name,
    download_start_time    |-> r.DownloadStartTime,
    download_complete_time |-> r.DownloadCompleteTime,
    download_duration      |-> r.DownloadDuration,
    seeding_stop_time      |-> r.SeedingStopTime,
    auto_stopped           |-> r.AutoStopped,
    created_at             |-> r.CreatedAt,
    updated_at             |-> r.UpdatedAt ]

UnmarshalRecord(j) ==
  [ Hash                 |-> j.hash,
    Name                 |-> j.name,
    DownloadStartTime    |-> j.download_start_time,
    DownloadCompleteTime |-> j.download_complete_time,
    DownloadDuration     |-> j.download_duration,
    SeedingStopTime      |-> j.seeding_stop_time,
    AutoStopped          |-> j.auto_stopped,
    CreatedAt            |-> j.created_at,
    UpdatedAt            |-> j.updated_at ]

Marshal(m) == [h \in DOMAIN m |-> MarshalRecord(m[h])]

\* json.Unmarshal into the existing, non-nil map: keys of the document are
\* stored with freshly decoded values, keys absent from it are kept
Unmarshal(doc, m) ==
  [h \in (DOMAIN m) \cup (DOMAIN doc) |->
     IF h \in DOMAIN doc THEN UnmarshalRecord(doc[h]) ELSE m[h]]

NoFile == [exists |-> FALSE, data |-> EmptyMap]

\* os.WriteFile of the marshalled table; a failed write leaves the file
WriteFile(m, ok) ==
  IF ok THEN [exists |-> TRUE, data |-> Marshal(m)] ELSE trackingFile

\* ------------------------------------------------------------------------
\* Process state
\* ------------------------------------------------------------------------
Alive == ~panicked

LockFree == dataMutex = "unlocked"

\* lastCall.err of a handler that never returns
NoReturn == "no return"

\* the *SeedingStatus of a call that returns none
NoReport == [nil |-> TRUE]

\* the configuration the service runs with: the required settings present,
\* the seeding settings valid
DefaultConfig ==
  [BotToken |-> "set", URL |-> "set", Username |-> "set", Password |-> "set",
   DefaultSavePath |-> "set", LogLevel |-> "info",
   TimeMultiplier |-> TimeMultiplier, CheckInterval |-> 1]

\* no GetTrackedTorrents call has returned a map
NoSnapshot == [nil |-> TRUE]

NoCall ==
  [op |-> "none", hashes |-> {}, err |-> "nil", log |-> "", seen |-> EmptyMap,
   report |-> NoReport, pauseUnderLock |-> FALSE]

Init ==
  /\ now = 1
  /\ trackingData = EmptyMap
  /\ trackingFile = NoFile
  /\ pendingSaves = 0
  /\ dataMutex = "unlocked"
  /\ runningMutex = "unlocked"
  /\ isRunning = FALSE
  /\ stopChan = "open"
  /\ ticker = "nil"
  /\ bgSelect = 0
  /\ bgFetched = 0
  /\ lastCall = NoCall
  /\ panicked = FALSE
  /\ config = DefaultConfig
  /\ ctxDone = FALSE
  /\ snapshot = NoSnapshot

Ret(op, hs, err, log) ==
  [op |-> op, hashes |-> hs, err |-> err, log |-> log, seen |-> EmptyMap,
   report |-> NoReport, pauseUnderLock |-> FALSE]

\* the clock advances
Advance ==
  /\ Alive
  /\ now < MaxTime
  /\ now' = now + 1
  /\ UNCHANGED << ctxDone, snapshot, config,
                  trackingData, trackingFile, pendingSaves, dataMutex,
                  runningMutex, isRunning, stopChan, ticker, bgSelect,
                  bgFetched, lastCall, panicked >>

\* ------------------------------------------------------------------------
\* StartTracking(ctx, hash, name)
\* ------------------------------------------------------------------------
\* variant: a second call for a tracked hash is refused with an error
StartTrackingRejectDuplicate(h, n) ==
  /\ Alive
  /\ LockFree
  /\ IF Tracked(h)
       THEN /\ lastCall' = Ret("StartTracking", {h},
                               "torrent is already being tracked", "")
            /\ UNCHANGED << trackingData, pendingSaves >>
       ELSE /\ pendingSaves < MaxPendingSaves
            /\ trackingData' = MapPut(trackingData, h, NewTrackingData(h, n, now))
            /\ pendingSaves' = pendingSaves + 1
            /\ lastCall' = Ret("StartTracking", {h}, "nil",
                               "Started tracking torrent for seeding management")
  /\ UNCHANGED << ctxDone, snapshot, config,
                  now, trackingFile, dataMutex, runningMutex,
                  isRunning, stopChan, ticker, bgSelect, bgFetched,
                  panicked >>

\* variant: no check for an existing record, the record is stored anew
StartTrackingOverwrite(h, n) ==
  /\ Alive
  /\ LockFree
  /\ pendingSaves < MaxPendingSaves
  /\ trackingData' = MapPut(trackingData, h, NewTrackingData(h, n, now))
  /\ pendingSaves' = pendingSaves + 1
  /\ lastCall' = Ret("StartTracking", {h}, "nil", "Started tracking torrent for seeding management")
  /\ UNCHANGED << ctxDone, snapshot, config,
                  now, trackingFile, dataMutex, runningMutex,
                  isRunning, stopChan, ticker, bgSelect, bgFetched,
                  panicked >>

StartTracking(h, n) ==
  /\ Alive
  /\ LockFree
  /\ IF Tracked(h)
       THEN /\ lastCall' = Ret("StartTracking", {h}, "nil",
                               "Torrent already being tracked")
            /\ UNCHANGED << trackingData, pendingSaves >>
       ELSE /\ pendingSaves < MaxPendingSaves
            /\ trackingData' = MapPut(trackingData, h, NewTrackingData(h, n, now))
            /\ pendingSaves' = pendingSaves + 1
            /\ lastCall' = Ret("StartTracking", {h}, "nil",
                               "Started tracking torrent for seeding management")
  /\ UNCHANGED << ctxDone, snapshot, config,
                  now, trackingFile, dataMutex, runningMutex,
                  isRunning, stopChan, ticker, bgSelect, bgFetched, panicked >>

\* ------------------------------------------------------------------------
\* StopTracking(hash)
\* ------------------------------------------------------------------------
\* variant: the removal spawns no save
StopTrackingNoSave(h) ==
  /\ Alive
  /\ LockFree
  /\ IF ~Tracked(h)
       THEN /\ lastCall' = Ret("StopTracking", {h},
                               "torrent is not being tracked", "")
            /\ UNCHANGED trackingData
       ELSE /\ trackingData' = MapDelete(trackingData, h)
            /\ lastCall' = Ret("StopTracking", {h}, "nil",
                               "Stopped tracking torrent")
  /\ UNCHANGED << ctxDone, snapshot, config,
                  now, trackingFile, pendingSaves, dataMutex,
                  runningMutex, isRunning, stopChan, ticker, bgSelect,
                  bgFetched, panicked >>

\* variant: an untracked hash is accepted silently
StopTrackingSilent(h) ==
  /\ Alive
  /\ LockFree
  /\ IF ~Tracked(h)
       THEN /\ lastCall' = Ret("StopTracking", {h}, "nil", "")
            /\ UNCHANGED << trackingData, pendingSaves >>
       ELSE /\ pendingSaves < MaxPendingSaves
            /\ trackingData' = MapDelete(trackingData, h)
            /\ pendingSaves' = pendingSaves + 1
            /\ lastCall' = Ret("StopTracking", {h}, "nil",
                               "Stopped tracking torrent")
  /\ UNCHANGED << ctxDone, snapshot, config,
                  now, trackingFile, dataMutex, runningMutex,
                  isRunning, stopChan, ticker, bgSelect, bgFetched,
                  panicked >>

StopTracking(h) ==
  /\ Alive
  /\ LockFree
  /\ IF ~Tracked(h)
       THEN /\ lastCall' = Ret("StopTracking", {h},
                               "torrent is not being tracked", "")
            /\ UNCHANGED << trackingData, pendingSaves >>
       ELSE /\ pendingSaves < MaxPendingSaves
            /\ trackingData' = MapDelete(trackingData, h)
            /\ pendingSaves' = pendingSaves + 1
            /\ lastCall' = Ret("StopTracking", {h}, "nil",
                               "Stopped tracking torrent")
  /\ UNCHANGED << ctxDone, snapshot, config,
                  now, trackingFile, dataMutex, runningMutex,
                  isRunning, stopChan, ticker, bgSelect, bgFetched, panicked >>

\* ------------------------------------------------------------------------
\* SaveTrackingData() run by a goroutine that StartTracking or StopTracking
\* spawned; it holds no lock when it asks for RLock.  A failed write is only
\* logged and leaves the file as a save that has not run yet leaves it.
\* ------------------------------------------------------------------------
AsyncSave ==
  /\ Alive
  /\ LockFree
  /\ pendingSaves > 0
  /\ trackingFile' = WriteFile(trackingData, TRUE)
  /\ pendingSaves' = pendingSaves - 1
  /\ UNCHANGED << ctxDone, snapshot, config,
                  now, trackingData, dataMutex, runningMutex,
                  isRunning, stopChan, ticker, bgSelect, bgFetched,
                  lastCall, panicked >>

\* ------------------------------------------------------------------------
\* CheckSeedingLimits(ctx), run by backgroundProcessor on every tick
\* ------------------------------------------------------------------------
\* variant: the budget is the download duration, the multiplier is dropped
CompleteDownloadNoMultiplier(td, t) ==
  LET d == Sub(t, td.DownloadStartTime) IN
  [td EXCEPT !.DownloadCompleteTime = t,
             !.DownloadDuration     = d,
             !.SeedingStopTime      = t + d,
             !.UpdatedAt            = t]

CompleteDownload(td, t) ==
  LET d == Sub(t, td.DownloadStartTime) IN
  [td EXCEPT !.DownloadCompleteTime = t,
             !.DownloadDuration     = d,
             !.SeedingStopTime      = t + ScaleDuration(d, TimeMultiplier),
             !.UpdatedAt            = t]

DetectCompletion(td, torrent, t) ==
  IF IsZero(td.DownloadCompleteTime) /\ IsCompleted(torrent)
    THEN CompleteDownload(td, t)
    ELSE td

\* variant: an overdue record is stopped whatever state its torrent is in
ShouldStopAnyState(td, torrent, t) ==
  /\ ~IsZero(td.DownloadCompleteTime)
  /\ After(t, td.SeedingStopTime)

\* variant: the stop is due at seedingStopTime already (!now.Before)
ShouldStopAtDeadline(td, torrent, t) ==
  /\ ~IsZero(td.DownloadCompleteTime)
  /\ t >= td.SeedingStopTime
  /\ IsSeeding(torrent)

ShouldStop(td, torrent, t) ==
  /\ ~IsZero(td.DownloadCompleteTime)
  /\ After(t, td.SeedingStopTime)
  /\ IsSeeding(torrent)

\* variant: the loop does not skip records that are auto-stopped already
ExaminedAgain(td, tm) == td.Hash \in DOMAIN tm

\* the loop body is reached: not auto-stopped and present in the list
Examined(td, tm) == ~td.AutoStopped /\ td.Hash \in DOMAIN tm

MarkAutoStopped(td, t) ==
  [td EXCEPT !.AutoStopped = TRUE, !.UpdatedAt = t]

\* variant: the stop check runs before the completion check and fires at
\* the deadline already
CheckRecordStopFirst(td, tm, t, pauseOk) ==
  IF ~Examined(td, tm) THEN td
  ELSE IF ShouldStopAtDeadline(td, tm[td.Hash], t) /\ td.Hash \in pauseOk
         THEN MarkAutoStopped(td, t)
         ELSE DetectCompletion(td, tm[td.Hash], t)

\* one iteration of the loop over ss.trackingData
CheckRecord(td, tm, t, pauseOk) ==
  IF ~Examined(td, tm) THEN td
  ELSE LET c == DetectCompletion(td, tm[td.Hash], t) IN
       IF ShouldStop(c, tm[td.Hash], t) /\ td.Hash \in pauseOk
         THEN MarkAutoStopped(c, t)
         ELSE c

\* the iteration calls client.PauseTorrents(ctx, []string{hash})
PauseIssued(td, tm, t) ==
  /\ Examined(td, tm)
  /\ ShouldStop(DetectCompletion(td, tm[td.Hash], t), tm[td.Hash], t)

\* the ticker case of the select: torrentService.GetTorrents, no lock held
\* variant: a failed fetch ends the background loop
FetchTorrentsExitOnError(ok) ==
  /\ Alive
  /\ bgSelect > 0
  /\ ticker = "active"
  /\ bgSelect' = bgSelect - 1
  /\ IF ok
       THEN /\ bgFetched' = bgFetched + 1
            /\ UNCHANGED lastCall
       ELSE /\ lastCall' = Ret("CheckSeedingLimits", {}, "failed to get torrents", "")
            /\ UNCHANGED bgFetched
  /\ UNCHANGED << ctxDone, snapshot, config,
                  now, trackingData, trackingFile, pendingSaves,
                  dataMutex, runningMutex, isRunning, stopChan, ticker, panicked >>

FetchTorrents(ok) ==
  /\ Alive
  /\ bgSelect > 0
  /\ ticker = "active"
  /\ IF ok
       THEN /\ bgSelect' = bgSelect - 1
            /\ bgFetched' = bgFetched + 1
            /\ UNCHANGED lastCall
       ELSE /\ lastCall' = Ret("CheckSeedingLimits", {}, "failed to get torrents", "")
            /\ UNCHANGED << bgSelect, bgFetched >>
  /\ UNCHANGED << ctxDone, snapshot, config,
                  now, trackingData, trackingFile, pendingSaves,
                  dataMutex, runningMutex, isRunning, stopChan, ticker, panicked >>

\* variant: the loop drops the records whose hash is not in the fetched list
TickTableDropMissing(m, tm, t, pauseOk) ==
  [h \in DOMAIN m \cap DOMAIN tm |-> CheckRecord(m[h], tm, t, pauseOk)]

\* variant: the first failed Pause call ends the loop; no record is updated
TickTableAbortOnFailure(m, tm, t, pauseOk) ==
  IF {h \in DOMAIN m : PauseIssued(m[h], tm, t)} \subseteq pauseOk
    THEN [h \in DOMAIN m |-> CheckRecord(m[h], tm, t, pauseOk)]
    ELSE m

\* the table after the loop over ss.trackingData has run on m at time t
TickTable(m, tm, t, pauseOk) ==
  [h \in DOMAIN m |-> CheckRecord(m[h], tm, t, pauseOk)]

\* the hashes that loop passes to PauseTorrents, one call each
TickPauses(m, tm, t) ==
  {h \in DOMAIN m : PauseIssued(m[h], tm, t)}

\* the hashes the loop passes to PauseTorrents, one call each
PauseRequests(tm) == TickPauses(trackingData, tm, now)

\* what a tick leaves to observe: its Pause calls and, for each, the state
\* the fetched list reported for that torrent
TickRet(tm, err) ==
  [Ret("CheckSeedingLimits", PauseRequests(tm), err, "")
     EXCEPT !.seen = [h \in PauseRequests(tm) |-> tm[h].State],
            \* the loop calls PauseTorrents between Lock and Unlock
            !.pauseUnderLock = PauseRequests(tm) # {}]

\* variant: the tick never saves, so it always unlocks and returns
CheckSeedingLimitsNoSave(tm, pauseOk) ==
  /\ Alive
  /\ LockFree
  /\ bgFetched > 0
  /\ trackingData' = TickTable(trackingData, tm, now, pauseOk)
  /\ lastCall' = TickRet(tm, "nil")
  /\ bgFetched' = bgFetched - 1
  /\ bgSelect' = bgSelect + 1
  /\ UNCHANGED << ctxDone, snapshot, config,
                  now, trackingFile, pendingSaves, dataMutex, runningMutex,
                  isRunning, stopChan, ticker, panicked >>

\* dataMutex.Lock() .. end of CheckSeedingLimits; tm is the fetched list,
\* pauseOk the hashes for which PauseTorrents returns nil
CheckSeedingLimits(tm, pauseOk) ==
  /\ Alive
  /\ LockFree
  /\ bgFetched > 0
  /\ LET stoppedCount == Cardinality(PauseRequests(tm) \cap pauseOk)
     IN /\ lastCall' = TickRet(tm, IF stoppedCount > 0 THEN NoReturn ELSE "nil")
        /\ trackingData' = TickTable(trackingData, tm, now, pauseOk)
        /\ bgFetched' = bgFetched - 1
        /\ IF stoppedCount > 0
             \* SaveTrackingData() asks for RLock under the held Lock
             THEN /\ dataMutex' = "CheckSeedingLimits"
                  /\ UNCHANGED bgSelect
             ELSE /\ bgSelect' = bgSelect + 1
                  /\ UNCHANGED dataMutex
  /\ UNCHANGED << ctxDone, snapshot, config,
                  now, trackingFile, pendingSaves, runningMutex,
                  isRunning, stopChan, ticker, panicked >>

\* the stopChan and ctx.Done() cases of the select
BackgroundExit ==
  /\ Alive
  /\ bgSelect > 0
  /\ stopChan = "closed" \/ ctxDone
  /\ bgSelect' = bgSelect - 1
  /\ UNCHANGED << ctxDone, snapshot, config,
                  now, trackingData, trackingFile, pendingSaves,
                  dataMutex, runningMutex, isRunning, stopChan, ticker,
                  bgFetched, lastCall, panicked >>

\* ------------------------------------------------------------------------
\* ForceStopSeeding(ctx, hashes)
\* ------------------------------------------------------------------------
\* variant: only records whose download has completed are marked
ForceMarkCompletedOnly(m, hs, t) ==
  [h \in DOMAIN m |->
     IF h \in hs /\ ~IsZero(m[h].DownloadCompleteTime)
       THEN MarkAutoStopped(m[h], t)
       ELSE m[h]]

\* variant: a forced stop removes the records instead of marking them
ForceMarkRemove(m, hs, t) ==
  [h \in DOMAIN m \ hs |-> m[h]]

ForceMark(m, hs, t) ==
  [h \in DOMAIN m |-> IF h \in hs THEN MarkAutoStopped(m[h], t) ELSE m[h]]

\* variant: the records are marked before the Pause call is made
ForceStopSeedingMarkFirst(hs, ok) ==
  /\ Alive
  /\ IF hs = {}
       THEN /\ lastCall' = Ret("ForceStopSeeding", hs,
                               "no torrent hashes provided", "")
            /\ UNCHANGED << trackingData, dataMutex >>
       ELSE /\ LockFree
            /\ trackingData' = ForceMark(trackingData, hs, now)
            /\ IF ok
                 THEN /\ dataMutex' = "ForceStopSeeding"
                      /\ lastCall' = Ret("ForceStopSeeding", hs, NoReturn, "")
                 ELSE /\ lastCall' = Ret("ForceStopSeeding", hs,
                                         "failed to pause torrents", "")
                      /\ UNCHANGED dataMutex
  /\ UNCHANGED << ctxDone, snapshot, config,
                  now, trackingFile, pendingSaves,
                  runningMutex, isRunning, stopChan, ticker,
                  bgSelect, bgFetched, panicked >>

ForceStopSeeding(hs, ok) ==
  /\ Alive
  /\ IF hs = {}
       THEN /\ lastCall' = Ret("ForceStopSeeding", hs,
                               "no torrent hashes provided", "")
            /\ UNCHANGED << trackingData, dataMutex >>
       ELSE IF ~ok
         THEN /\ lastCall' = Ret("ForceStopSeeding", hs,
                                 "failed to pause torrents", "")
              /\ UNCHANGED << trackingData, dataMutex >>
         ELSE /\ LockFree
              /\ trackingData' = ForceMark(trackingData, hs, now)
              /\ dataMutex' = "ForceStopSeeding"
              /\ lastCall' = Ret("ForceStopSeeding", hs, NoReturn, "")
  /\ UNCHANGED << ctxDone, snapshot, config,
                  now, trackingFile, pendingSaves,
                  runningMutex, isRunning, stopChan, ticker,
                  bgSelect, bgFetched, panicked >>

\* ------------------------------------------------------------------------
\* GetSeedingStatus(ctx)
\* ------------------------------------------------------------------------
\* Torrent.GetStateDisplayName()
GetStateDisplayName(t) ==
  CASE t.State = "uploading"   -> "Seeding"
    [] t.State = "pausedUP"    -> "Paused (Complete)"
    [] t.State = "downloading" -> "Downloading"
    [] OTHER                   -> "Unknown"

\* the *SeedingTorrentStatus built for one record and its live torrent
TorrentStatus(td, torrent, t) ==
  LET completed == ~IsZero(td.DownloadCompleteTime)
      timeRemaining == Sub(td.SeedingStopTime, t)
  IN [ Hash             |-> td.Hash,
       Name             |-> td.Name,
       DownloadDuration |-> td.DownloadDuration,
       SeedingDuration  |-> IF ~completed THEN 0
                            ELSE IF td.AutoStopped
                              THEN Sub(td.SeedingStopTime, td.DownloadCompleteTime)
                              ELSE Sub(t, td.DownloadCompleteTime),
       SeedingLimit     |-> IF completed
                              THEN ScaleDuration(td.DownloadDuration, TimeMultiplier)
                              ELSE 0,
       TimeRemaining    |-> IF completed /\ timeRemaining >= 0
                              THEN timeRemaining ELSE 0,
       IsOverdue        |-> completed /\ timeRemaining < 0,
       AutoStopped      |-> td.AutoStopped,
       CurrentState     |-> GetStateDisplayName(torrent),
       SeedingStopTime  |-> td.SeedingStopTime ]

\* variant: every listed record that is not auto-stopped counts as actively
\* seeding, whatever state its live torrent is in
StatusReportAllActive(m, tm, t) ==
  LET listed == DOMAIN m \cap DOMAIN tm
      Details == [h \in listed |-> TorrentStatus(m[h], tm[h], t)]
  IN [ nil              |-> FALSE,
       TrackedTorrents  |-> Cardinality(listed),
       ActiveSeeding    |-> Cardinality({h \in listed : ~m[h].AutoStopped}),
       CompletedSeeding |-> Cardinality({h \in listed : m[h].AutoStopped}),
       OverdueSeeding   |-> Cardinality({h \in listed :
                              Details[h].IsOverdue /\ ~m[h].AutoStopped}),
       Details          |-> Details,
       LastChecked      |-> t ]

\* the loop over ss.trackingData: a record whose hash is not in the fetched
\* list is skipped; the two duration totals are left out
StatusReport(m, tm, t) ==
  LET listed == DOMAIN m \cap DOMAIN tm
      Details == [h \in listed |-> TorrentStatus(m[h], tm[h], t)]
  IN [ nil              |-> FALSE,
       TrackedTorrents  |-> Cardinality(listed),
       ActiveSeeding    |-> Cardinality({h \in listed :
                              IsSeeding(tm[h]) /\ ~m[h].AutoStopped}),
       CompletedSeeding |-> Cardinality({h \in listed :
                              ~(IsSeeding(tm[h]) /\ ~m[h].AutoStopped)
                                /\ m[h].AutoStopped}),
       OverdueSeeding   |-> Cardinality({h \in listed :
                              Details[h].IsOverdue /\ ~m[h].AutoStopped}),
       Details          |-> Details,
       LastChecked      |-> t ]

\* variant: the report is followed by a save of the table
GetSeedingStatusAndSave(tm, ok) ==
  /\ Alive
  /\ IF ok
       THEN /\ LockFree
            /\ lastCall' = [Ret("GetSeedingStatus", {}, "nil",
                                "Seeding status report generated")
                              EXCEPT !.report = StatusReport(trackingData, tm, now)]
            /\ trackingFile' = WriteFile(trackingData, TRUE)
       ELSE /\ lastCall' = Ret("GetSeedingStatus", {}, "failed to get torrents", "")
            /\ UNCHANGED trackingFile
  /\ UNCHANGED << ctxDone, snapshot, config,
                  now, trackingData, pendingSaves,
                  dataMutex, runningMutex, isRunning, stopChan, ticker,
                  bgSelect, bgFetched, panicked >>

\* tm is the list torrentService.GetTorrents returns when ok
GetSeedingStatus(tm, ok) ==
  /\ Alive
  /\ IF ok
       THEN /\ LockFree
            /\ lastCall' = [Ret("GetSeedingStatus", {}, "nil",
                                "Seeding status report generated")
                              EXCEPT !.report = StatusReport(trackingData, tm, now)]
       ELSE lastCall' = Ret("GetSeedingStatus", {}, "failed to get torrents", "")
  /\ UNCHANGED << ctxDone, snapshot, config,
                  now, trackingData, trackingFile, pendingSaves,
                  dataMutex, runningMutex, isRunning, stopChan, ticker,
                  bgSelect, bgFetched, panicked >>

\* ------------------------------------------------------------------------
\* Start(ctx), Stop()
\* ------------------------------------------------------------------------
\* LoadTrackingData(): a missing or unreadable file leaves the table alone
LoadTrackingData(m, readOk) ==
  IF trackingFile.exists /\ readOk THEN Unmarshal(trackingFile.data, m) ELSE m

Start(readOk) ==
  /\ Alive
  /\ runningMutex = "unlocked"
  /\ IF isRunning
       THEN /\ lastCall' = Ret("Start", {}, "seeding service is already running", "")
            /\ UNCHANGED << trackingData, runningMutex, isRunning, ticker, bgSelect,
                            panicked >>
       ELSE IF ~LockFree
         \* LoadTrackingData waits for dataMutex with runningMutex held
         THEN /\ runningMutex' = "Start"
              /\ UNCHANGED << trackingData, isRunning, ticker, bgSelect, lastCall,
                              panicked >>
         ELSE /\ trackingData' = LoadTrackingData(trackingData, readOk)
              /\ IF config.CheckInterval <= 0
                   \* time.NewTicker: non-positive interval
                   THEN /\ panicked' = TRUE
                        /\ UNCHANGED << ticker, isRunning, bgSelect, lastCall >>
                   ELSE /\ ticker' = "active"
                        /\ isRunning' = TRUE
                        /\ bgSelect' = bgSelect + 1
                        /\ lastCall' = Ret("Start", {}, "nil", "")
                        /\ UNCHANGED panicked
              /\ UNCHANGED runningMutex
  /\ UNCHANGED << ctxDone, snapshot, config,
                  now, trackingFile, pendingSaves, dataMutex, stopChan,
                  bgFetched >>

Stop(saveOk) ==
  /\ Alive
  /\ runningMutex = "unlocked"
  /\ IF ~isRunning
       THEN /\ lastCall' = Ret("Stop", {}, "nil", "")
            /\ UNCHANGED << trackingFile, runningMutex, isRunning, stopChan,
                            ticker, panicked >>
       ELSE IF stopChan = "closed"
         \* close of a closed channel
         THEN /\ panicked' = TRUE
              /\ UNCHANGED << trackingFile, runningMutex, isRunning, stopChan,
                              ticker, lastCall >>
         ELSE /\ stopChan' = "closed"
              /\ ticker' = "stopped"
              /\ UNCHANGED panicked
              /\ IF LockFree
                   THEN /\ trackingFile' = WriteFile(trackingData, saveOk)
                        /\ isRunning' = FALSE
                        /\ lastCall' = Ret("Stop", {}, "nil", "")
                        /\ UNCHANGED runningMutex
                   \* SaveTrackingData waits for dataMutex with runningMutex held
                   ELSE /\ runningMutex' = "Stop"
                        /\ UNCHANGED << trackingFile, isRunning, lastCall >>
  /\ UNCHANGED << ctxDone, snapshot, config,
                  now, trackingData, pendingSaves, dataMutex, bgSelect,
                  bgFetched >>

Next ==
  \/ Advance
  \/ \E a \in TrackArgs : StartTracking(a[1], a[2])
  \/ \E h \in Hashes : StopTracking(h)
  \/ AsyncSave
  \/ \E ok \in BOOLEAN : FetchTorrents(ok)
  \/ \E tm \in TorrentMaps :
       \E pauseOk \in SUBSET PauseRequests(tm) : CheckSeedingLimits(tm, pauseOk)
  \/ BackgroundExit
  \/ \E hs \in ForceArgs, ok \in BOOLEAN : ForceStopSeeding(hs, ok)
  \/ \E ok \in BOOLEAN :
       \E tm \in (IF ok THEN TorrentMaps ELSE {EmptyMap}) : GetSeedingStatus(tm, ok)
  \/ \E readOk \in BOOLEAN : Start(readOk)
  \/ \E saveOk \in BOOLEAN : Stop(saveOk)

Spec == Init /\ [][Next]_vars

\* ------------------------------------------------------------------------
\* SaveTrackingData() and LoadTrackingData() called directly, and a restart
\* of the process, starting from any table the service can hold
\* ------------------------------------------------------------------------
\* the records StartTracking, a tick and ForceStopSeeding can make for (h, n)
LifecycleRecords(h, n) ==
  { r \in [ Hash                 : {h},
            Name                 : {n},
            DownloadStartTime    : 1..MaxTime,
            DownloadCompleteTime : 0..MaxTime,
            DownloadDuration     : 0..MaxTime,
            SeedingStopTime      : 0..(2 * MaxTime),
            AutoStopped          : BOOLEAN,
            CreatedAt            : 1..MaxTime,
            UpdatedAt            : 1..MaxTime ] :
      /\ r.CreatedAt = r.DownloadStartTime
      /\ r.UpdatedAt >= r.DownloadStartTime
      /\ r.AutoStopped \/ r.UpdatedAt = r.DownloadCompleteTime
                          \/ (IsZero(r.DownloadCompleteTime)
                                /\ r.UpdatedAt = r.DownloadStartTime)
      /\ IF IsZero(r.DownloadCompleteTime)
           THEN /\ r.DownloadDuration = 0
                /\ IsZero(r.SeedingStopTime)
           ELSE /\ r.DownloadCompleteTime >= r.DownloadStartTime
                /\ r.UpdatedAt >= r.DownloadCompleteTime
                /\ r.DownloadDuration =
                     Sub(r.DownloadCompleteTime, r.DownloadStartTime)
                /\ r.SeedingStopTime = r.DownloadCompleteTime
                     + ScaleDuration(r.DownloadDuration, TimeMultiplier) }

\* every table over Hashes whose records are keyed by their own hash
Tables ==
  { m \in UNION { [S -> UNION { LifecycleRecords(a[1], a[2]) : a \in TrackArgs }] :
                  S \in SUBSET Hashes } :
      \A h \in DOMAIN m : m[h].Hash = h }

InitRoundTrip ==
  /\ now = MaxTime
  /\ trackingData \in Tables
  /\ trackingFile = NoFile
  /\ pendingSaves = 0
  /\ dataMutex = "unlocked"
  /\ runningMutex = "unlocked"
  /\ isRunning = FALSE
  /\ stopChan = "open"
  /\ ticker = "nil"
  /\ bgSelect = 0
  /\ bgFetched = 0
  /\ lastCall = NoCall
  /\ panicked = FALSE
  /\ config = DefaultConfig
  /\ ctxDone = FALSE
  /\ snapshot = NoSnapshot

\* SaveTrackingData() called with no lock held
Save(ok) ==
  /\ Alive
  /\ LockFree
  /\ trackingFile' = WriteFile(trackingData, ok)
  /\ lastCall' = Ret("SaveTrackingData", {},
                     IF ok THEN "nil" ELSE "failed to write tracking data file",
                     "")
  /\ UNCHANGED << ctxDone, snapshot, config,
                  now, trackingData, pendingSaves, dataMutex, runningMutex,
                  isRunning, stopChan, ticker, bgSelect, bgFetched, panicked >>

\* the process exits and NewSeedingService builds a fresh service; the file
\* stays
Restart ==
  /\ trackingData' = EmptyMap
  /\ lastCall' = Ret("NewSeedingService", {}, "nil", "")
  /\ pendingSaves' = 0
  /\ dataMutex' = "unlocked"
  /\ runningMutex' = "unlocked"
  /\ isRunning' = FALSE
  /\ stopChan' = "open"
  /\ ticker' = "nil"
  /\ bgSelect' = 0
  /\ bgFetched' = 0
  /\ panicked' = FALSE
  /\ UNCHANGED << ctxDone, snapshot, config,
                  now, trackingFile >>

\* LoadTrackingData() called directly; lastCall.hashes are the keys the table
\* held before the call
Load(readOk) ==
  /\ Alive
  /\ LockFree
  /\ trackingData' = LoadTrackingData(trackingData, readOk)
  /\ lastCall' = Ret("LoadTrackingData", DOMAIN trackingData,
                     IF trackingFile.exists /\ ~readOk
                       THEN "failed to read tracking data file" ELSE "nil",
                     IF trackingFile.exists /\ readOk
                       THEN "Tracking data loaded from disk"
                       ELSE IF trackingFile.exists THEN ""
                       ELSE "Tracking data file does not exist, starting with empty data")
  /\ UNCHANGED << ctxDone, snapshot, config,
                  now, trackingFile, pendingSaves, dataMutex, runningMutex,
                  isRunning, stopChan, ticker, bgSelect, bgFetched, panicked >>

NextRoundTrip ==
  \/ \E ok \in BOOLEAN : Save(ok)
  \/ Restart
  \/ \E readOk \in BOOLEAN : Load(readOk)

RoundTrip == InitRoundTrip /\ [][NextRoundTrip]_vars

\* ------------------------------------------------------------------------
\* Process start: LoadConfig(), NewSeedingService(cfg, ...) and Start(ctx),
\* for every environment
\* ------------------------------------------------------------------------
\* a required setting is empty or present
Settings == {"", "set"}

\* LOG_LEVEL, a valid and an invalid one
LogLevels == {"info", "verbose"}

\* SEEDING_TIME_MULTIPLIER: negative, zero, positive
Multipliers ==
  {[num |-> 0 - 1, den |-> 1], [num |-> 0, den |-> 1], TimeMultiplier}

\* SEEDING_CHECK_INTERVAL: negative, zero, positive
Intervals == {0 - 1, 0, 1}

\* the configurations LoadConfig can read from the environment
Configs ==
  [BotToken : Settings, URL : Settings, Username : Settings,
   Password : Settings, DefaultSavePath : Settings, LogLevel : LogLevels,
   TimeMultiplier : Multipliers, CheckInterval : Intervals]

ValidLogLevels ==
  {"trace", "debug", "info", "warn", "error", "fatal", "panic"}

\* (c *Config) Validate(): the error of the first failing check, or nil
Validate(c) ==
  IF c.BotToken = "" THEN "DISCORD_BOT_TOKEN is required"
  ELSE IF c.URL = "" THEN "QBITTORRENT_URL is required"
  ELSE IF c.Username = "" THEN "QBITTORRENT_USERNAME is required"
  ELSE IF c.Password = "" THEN "QBITTORRENT_PASSWORD is required"
  ELSE IF c.DefaultSavePath = "" THEN "QBITTORRENT_DEFAULT_SAVE_PATH is required"
  ELSE IF c.LogLevel \notin ValidLogLevels THEN "invalid log level"
  ELSE IF c.TimeMultiplier.num <= 0
    THEN "seeding time multiplier must be greater than 0"
  ELSE "nil"

InitConfigure ==
  /\ now = 1
  /\ trackingData = EmptyMap
  /\ trackingFile = NoFile
  /\ pendingSaves = 0
  /\ dataMutex = "unlocked"
  /\ runningMutex = "unlocked"
  /\ isRunning = FALSE
  /\ stopChan = "open"
  /\ ticker = "nil"
  /\ bgSelect = 0
  /\ bgFetched = 0
  /\ lastCall = NoCall
  /\ panicked = FALSE
  /\ config \in Configs
  /\ ctxDone = FALSE
  /\ snapshot = NoSnapshot

\* LoadConfig(): the settings are read and validated
LoadConfig ==
  /\ lastCall.op = "none"
  /\ lastCall' = Ret("LoadConfig", {}, Validate(config), "")
  /\ UNCHANGED << ctxDone, snapshot, config,
                  now, trackingData, trackingFile, pendingSaves,
                  dataMutex, runningMutex, isRunning, stopChan, ticker,
                  bgSelect, bgFetched, panicked >>

\* initializeServices goes on only with a configuration LoadConfig returned
NewSeedingService ==
  /\ lastCall.op = "LoadConfig"
  /\ lastCall.err = "nil"
  /\ trackingData' = EmptyMap
  /\ stopChan' = "open"
  /\ lastCall' = Ret("NewSeedingService", {}, "nil", "")
  /\ UNCHANGED << ctxDone, snapshot, config,
                  now, trackingFile, pendingSaves, dataMutex,
                  runningMutex, isRunning, ticker, bgSelect, bgFetched,
                  panicked >>

\* seedingService.Start(ctx) right after the construction
StartService(readOk) ==
  /\ lastCall.op = "NewSeedingService"
  /\ Start(readOk)

NextConfigure ==
  \/ LoadConfig
  \/ NewSeedingService
  \/ \E readOk \in BOOLEAN : StartService(readOk)

Configure == InitConfigure /\ [][NextConfigure]_vars

\* ------------------------------------------------------------------------
\* A service that Start has just brought up on any tracking file: the helper
\* methods, the cancellation of the context, and the handlers that change
\* the table
\* ------------------------------------------------------------------------
\* variant: the returned map holds the table's own pointers
GetTrackedTorrentsShared ==
  /\ Alive
  /\ LockFree
  /\ snapshot = NoSnapshot
  /\ snapshot' = [nil |-> FALSE,
                  recs |-> [h \in DOMAIN trackingData |->
                              [shared |-> TRUE, val |-> trackingData[h]]]]
  /\ lastCall' = Ret("GetTrackedTorrents", {}, "nil", "")
  /\ UNCHANGED << ctxDone, config,
                  now, trackingData, trackingFile, pendingSaves, dataMutex,
                  runningMutex, isRunning, stopChan, ticker, bgSelect,
                  bgFetched, panicked >>

\* GetTrackedTorrents(): under RLock, a new map with a new copy of every
\* record; shared tells whether an entry points to the table's own record
GetTrackedTorrents ==
  /\ Alive
  /\ LockFree
  /\ snapshot = NoSnapshot
  /\ snapshot' = [nil |-> FALSE,
                  recs |-> [h \in DOMAIN trackingData |->
                              [shared |-> FALSE, val |-> trackingData[h]]]]
  /\ lastCall' = Ret("GetTrackedTorrents", {}, "nil", "")
  /\ UNCHANGED << ctxDone, config,
                  now, trackingData, trackingFile, pendingSaves, dataMutex,
                  runningMutex, isRunning, stopChan, ticker, bgSelect,
                  bgFetched, panicked >>

\* the record the caller reads through entry h of the returned map snap,
\* when the table is m
SnapshotView(snap, m, h) ==
  IF snap.recs[h].shared /\ h \in DOMAIN m THEN m[h] ELSE snap.recs[h].val

\* the caller writes to the record behind entry h of the map it was given
ModifyReturned(h) ==
  /\ Alive
  /\ snapshot # NoSnapshot
  /\ h \in DOMAIN snapshot.recs
  /\ SnapshotView(snapshot, trackingData, h).Name # "Edited"
  /\ IF snapshot.recs[h].shared /\ Tracked(h)
       THEN /\ trackingData' = [trackingData EXCEPT ![h].Name = "Edited"]
            /\ UNCHANGED snapshot
       ELSE /\ snapshot' = [snapshot EXCEPT !.recs[h].val.Name = "Edited"]
            /\ UNCHANGED trackingData
  /\ UNCHANGED << ctxDone, config,
                  now, trackingFile, pendingSaves, dataMutex, runningMutex,
                  isRunning, stopChan, ticker, bgSelect, bgFetched, lastCall,
                  panicked >>

\* the save spawned by StartTracking or StopTracking fails at os.WriteFile:
\* the error is logged by the goroutine, the file stays as it is
AsyncSaveFailed ==
  /\ Alive
  /\ LockFree
  /\ pendingSaves > 0
  /\ trackingFile' = WriteFile(trackingData, FALSE)
  /\ pendingSaves' = pendingSaves - 1
  /\ UNCHANGED << ctxDone, snapshot, config,
                  now, trackingData, dataMutex, runningMutex,
                  isRunning, stopChan, ticker, bgSelect, bgFetched,
                  lastCall, panicked >>

\* cancel(): the context passed to Start is cancelled
CancelContext ==
  /\ Alive
  /\ ~ctxDone
  /\ ctxDone' = TRUE
  /\ UNCHANGED << snapshot, config,
                  now, trackingData, trackingFile, pendingSaves, dataMutex,
                  runningMutex, isRunning, stopChan, ticker, bgSelect,
                  bgFetched, lastCall, panicked >>

\* NewSeedingService and Start have run in a new process; LoadTrackingData
\* read a file that holds any table
InitRunning ==
  /\ now = MaxTime
  /\ trackingData \in Tables
  /\ trackingFile = [exists |-> TRUE, data |-> Marshal(trackingData)]
  /\ pendingSaves = 0
  /\ dataMutex = "unlocked"
  /\ runningMutex = "unlocked"
  /\ isRunning = TRUE
  /\ stopChan = "open"
  /\ ticker = "active"
  /\ bgSelect = 1
  /\ bgFetched = 0
  /\ lastCall = Ret("Start", {}, "nil", "")
  /\ panicked = FALSE
  /\ config = DefaultConfig
  /\ ctxDone = FALSE
  /\ snapshot = NoSnapshot

NextRunning ==
  \/ \E ok \in (IF ctxDone THEN {FALSE} ELSE BOOLEAN) : FetchTorrents(ok)
  \/ \E tm \in TorrentMaps :
       \E pauseOk \in SUBSET PauseRequests(tm) : CheckSeedingLimits(tm, pauseOk)
  \/ BackgroundExit
  \/ CancelContext
  \/ \E saveOk \in BOOLEAN : Stop(saveOk)
  \/ \E h \in Hashes : StopTracking(h)
  \/ \E hs \in ForceArgs \ {{}} : ForceStopSeeding(hs, TRUE)
  \/ AsyncSave
  \/ AsyncSaveFailed

Running == InitRunning /\ [][NextRunning]_vars

\* the same service with a caller that takes a snapshot and writes to it
NextSnapshots ==
  \/ \E ok \in BOOLEAN : FetchTorrents(ok)
  \/ \E tm \in TorrentMaps :
       \E pauseOk \in SUBSET PauseRequests(tm) : CheckSeedingLimits(tm, pauseOk)
  \/ \E h \in Hashes : StopTracking(h)
  \/ AsyncSave
  \/ GetTrackedTorrents
  \/ \E h \in Hashes : ModifyReturned(h)

Snapshots == InitRunning /\ [][NextSnapshots]_vars

\* IsRunning(): the flag, read under runningMutex.RLock
IsRunning == isRunning

\* ------------------------------------------------------------------------
\* Properties
\* ------------------------------------------------------------------------
AutoStopped(h) == Tracked(h) /\ trackingData[h].AutoStopped

Completed(h) == Tracked(h) /\ ~IsZero(trackingData[h].DownloadCompleteTime)

\* the step is the locked part of a reconciliation tick
TickStep == bgFetched' < bgFetched

\* C1: once a record's autoStopped is true, no step sets it back to false
\* while the record stays in the table.
C1_AutoStoppedMonotonic ==
  [][\A h \in Hashes :
       (AutoStopped(h) /\ h \in DOMAIN trackingData')
         => trackingData'[h].AutoStopped]_vars

\* an auto-stopped record is still in the table after time has passed and
\* another API call has run
C1_Witness ==
  \E h \in Hashes :
    /\ AutoStopped(h)
    /\ now > trackingData[h].UpdatedAt
    /\ lastCall.op \in {"GetSeedingStatus", "ForceStopSeeding"}
    /\ lastCall.err # NoReturn

\* C2: a tick passes a hash to PauseTorrents only if its record is completed,
\* was not auto-stopped, now is strictly after its seedingStopTime and the
\* fetched list reports the torrent as seeding.
C2_PauseOnlyWhenOverdueAndSeeding ==
  [][TickStep =>
       \A h \in lastCall'.hashes :
         /\ Tracked(h)
         /\ ~trackingData[h].AutoStopped
         /\ ~IsZero(trackingData'[h].DownloadCompleteTime)
         /\ now > trackingData'[h].SeedingStopTime
         /\ h \in DOMAIN lastCall'.seen
         /\ IsSeeding([State |-> lastCall'.seen[h]])]_vars

\* a tick has issued a Pause call
C2_Witness ==
  /\ lastCall.op = "CheckSeedingLimits"
  /\ lastCall.hashes # {}
  /\ \A h \in lastCall.hashes : Completed(h) /\ now > trackingData[h].SeedingStopTime

\* C3: after a tick in which the Pause call for an overdue record failed, the
\* record is still not auto-stopped and the engine can run a later tick that
\* completes the stop (the table lock is not held for ever).
C3_FailedPauseIsRetried ==
  \A h \in Hashes :
    ( /\ lastCall.op = "CheckSeedingLimits"
      /\ h \in lastCall.hashes
      /\ Tracked(h)
      /\ ~trackingData[h].AutoStopped )
    => LockFree

\* C4 as stated: downloadDuration == downloadCompleteTime - downloadStartTime
\* and seedingStopTime == downloadCompleteTime + multiplier * downloadDuration
\* exactly, for every completed record.
C4_StopTimeExact ==
  \A h \in Hashes :
    Completed(h) =>
      LET r == trackingData[h] IN
      /\ r.DownloadDuration = r.DownloadCompleteTime - r.DownloadStartTime
      /\ TimeMultiplier.den * (r.SeedingStopTime - r.DownloadCompleteTime)
           = TimeMultiplier.num * r.DownloadDuration

\* C4 amended: the seeding budget seedingStopTime - downloadCompleteTime is
\* multiplier * downloadDuration truncated toward zero to whole clock units,
\* and downloadCompleteTime is not later than now.
C4_StopTimeTruncated ==
  \A h \in Hashes :
    Completed(h) =>
      LET r == trackingData[h]
          k == r.SeedingStopTime - r.DownloadCompleteTime
      IN /\ r.DownloadDuration = r.DownloadCompleteTime - r.DownloadStartTime
         /\ r.DownloadCompleteTime <= now
         /\ TimeMultiplier.den * k <= TimeMultiplier.num * r.DownloadDuration
         /\ TimeMultiplier.num * r.DownloadDuration < TimeMultiplier.den * (k + 1)

\* a record completed after one clock unit of download: half a unit of
\* budget is truncated to none
C4_Witness ==
  \E h \in Hashes :
    /\ Completed(h)
    /\ trackingData[h].DownloadDuration = 1
    /\ trackingData[h].SeedingStopTime = trackingData[h].DownloadCompleteTime

\* C5: the three completion fields are all unset or all set; once set no
\* step changes any of them, and downloadStartTime never changes while the
\* record is in the table.
C5_CompletionFieldsImmutable ==
  [][\A h \in Hashes :
       (Tracked(h) /\ h \in DOMAIN trackingData') =>
         LET r == trackingData[h]
             q == trackingData'[h]
         IN /\ q.DownloadStartTime = r.DownloadStartTime
            /\ IsZero(q.DownloadCompleteTime) <=> IsZero(q.SeedingStopTime)
            /\ IsZero(q.DownloadCompleteTime) => q.DownloadDuration = 0
            /\ ~IsZero(r.DownloadCompleteTime) =>
                 /\ q.DownloadCompleteTime = r.DownloadCompleteTime
                 /\ q.DownloadDuration = r.DownloadDuration
                 /\ q.SeedingStopTime = r.SeedingStopTime]_vars

\* C6: every StartTracking call returns nil and leaves exactly one record
\* for its hash in the table, however many calls for that hash came before.
C6_OneRecordPerHash ==
  [][\A a \in TrackArgs :
       StartTracking(a[1], a[2]) =>
         /\ lastCall'.err = "nil"
         /\ Cardinality({k \in DOMAIN trackingData' :
                           trackingData'[k].Hash = a[1]}) = 1
         /\ DOMAIN trackingData' = DOMAIN trackingData \cup {a[1]}]_vars

\* a second StartTracking for a tracked hash has returned and the hash has
\* one record
C6_Witness ==
  /\ lastCall.op = "StartTracking"
  /\ lastCall.err = "nil"
  /\ lastCall.log = "Torrent already being tracked"
  /\ \A h \in lastCall.hashes :
       Cardinality({k \in DOMAIN trackingData : trackingData[k].Hash = h}) = 1

\* C7: StartTracking for a hash that is already tracked returns nil and
\* changes no record, whatever state the existing record is in.
C7_StartTrackingIdempotent ==
  [][\A a \in TrackArgs :
       (StartTracking(a[1], a[2]) /\ Tracked(a[1])) =>
         /\ lastCall'.err = "nil"
         /\ trackingData' = trackingData]_vars

\* StartTracking was called again, under another name, for a completed
\* record created earlier
C7_Witness ==
  /\ lastCall.op = "StartTracking"
  /\ lastCall.log = "Torrent already being tracked"
  /\ \E h \in lastCall.hashes :
       /\ Completed(h)
       /\ trackingData[h].Name = "Bar"
       /\ trackingData[h].DownloadStartTime < now

\* C8: StopTracking of an untracked hash returns the not-tracked error and
\* leaves the table unchanged; StopTracking of a tracked hash removes exactly
\* that record and returns nil.
C8_StopTracking ==
  [][\A h \in Hashes :
       StopTracking(h) =>
         IF ~Tracked(h)
           THEN /\ lastCall'.err = "torrent is not being tracked"
                /\ trackingData' = trackingData
           ELSE /\ lastCall'.err = "nil"
                /\ DOMAIN trackingData' = DOMAIN trackingData \ {h}
                /\ \A k \in DOMAIN trackingData' :
                     trackingData'[k] = trackingData[k]]_vars

\* StopTracking of an untracked hash returned its error while another
\* record is tracked
C8_Witness ==
  /\ lastCall.op = "StopTracking"
  /\ lastCall.err = "torrent is not being tracked"
  /\ DOMAIN trackingData # {}
  /\ lastCall.hashes \cap DOMAIN trackingData = {}

\* C9: when the PauseTorrents call of ForceStopSeeding fails, the call
\* returns that error and no record is changed.
C9_ForceStopFailureChangesNothing ==
  [][\A hs \in ForceArgs :
       (hs # {} /\ ForceStopSeeding(hs, FALSE)) =>
         /\ lastCall'.err = "failed to pause torrents"
         /\ trackingData' = trackingData]_vars

\* ForceStopSeeding failed for a tracked record, which is not auto-stopped
C9_Witness ==
  /\ lastCall.op = "ForceStopSeeding"
  /\ lastCall.err = "failed to pause torrents"
  /\ \E h \in lastCall.hashes : Tracked(h) /\ ~trackingData[h].AutoStopped

\* C10: when the PauseTorrents call of ForceStopSeeding succeeds, every
\* tracked record whose hash is in the list gets autoStopped = true, whether
\* completed or not, with its other fields (but updatedAt) kept, and no
\* other record changes.
C10_ForceStopMarksListedRecords ==
  [][\A hs \in ForceArgs :
       (hs # {} /\ ForceStopSeeding(hs, TRUE)) =>
         /\ DOMAIN trackingData' = DOMAIN trackingData
         /\ \A h \in DOMAIN trackingData :
              IF h \in hs
                THEN trackingData'[h] =
                       [trackingData[h] EXCEPT !.AutoStopped = TRUE,
                                               !.UpdatedAt = now]
                ELSE trackingData'[h] = trackingData[h]]_vars

\* a record that never completed was force-stopped while the other tracked
\* record, not in the list, is not auto-stopped
C10_Witness ==
  /\ lastCall.op = "ForceStopSeeding"
  /\ lastCall.hashes = {"abc123"}
  /\ AutoStopped("abc123")
  /\ IsZero(trackingData["abc123"].DownloadCompleteTime)
  /\ Tracked("zzz999")
  /\ ~trackingData["zzz999"].AutoStopped

\* the step is a GetSeedingStatus call that returned
StatusStep == lastCall'.op = "GetSeedingStatus" /\ lastCall' # lastCall

\* C11 as stated: a ForceStopSeeding call returns to its caller and leaves
\* the table lock released.
C11_ForceStopSeedingReturns ==
  lastCall.op = "ForceStopSeeding" =>
    /\ lastCall.err # NoReturn
    /\ dataMutex # "ForceStopSeeding"

\* C12: a GetSeedingStatus call changes no record, adds or removes none,
\* issues no Pause call, writes no file and spawns no save.
C12_GetStatusPureRead ==
  [][StatusStep =>
       /\ trackingData' = trackingData
       /\ trackingFile' = trackingFile
       /\ pendingSaves' = pendingSaves
       /\ dataMutex' = dataMutex
       /\ lastCall'.hashes = {}]_vars

\* GetSeedingStatus returned a report with an overdue record that is still
\* not auto-stopped, while the file on disk differs from the table
C12_Witness ==
  /\ lastCall.op = "GetSeedingStatus"
  /\ lastCall.err = "nil"
  /\ lastCall.report.OverdueSeeding = 1
  /\ \E h \in DOMAIN trackingData : ~trackingData[h].AutoStopped
  /\ trackingFile.data # Marshal(trackingData)

\* C13 as stated: every GetSeedingStatus call returns a report and no error.
C13_GetStatusAlwaysSucceeds ==
  lastCall.op = "GetSeedingStatus" =>
    /\ lastCall.err = "nil"
    /\ ~lastCall.report.nil

\* the step is a GetSeedingStatus call that returned a report
ReportStep == StatusStep /\ lastCall'.err = "nil"

\* display names of the states Torrent.IsSeeding accepts
SeedingDisplayNames ==
  {"Seeding", "Queued (Seeding)", "Stalled (Seeding)", "Checking (Complete)",
   "Forced Seeding"}

\* C14 as stated: the report of GetSeedingStatus counts every tracked record
\* and has one detail entry per tracked record, also for records whose torrent
\* is missing from the fetched list.
C14_ReportCoversEveryRecord ==
  [][ReportStep =>
       /\ lastCall'.report.TrackedTorrents = Cardinality(DOMAIN trackingData)
       /\ DOMAIN lastCall'.report.Details = DOMAIN trackingData]_vars

\* C15 as stated: OverdueSeeding is the number of tracked records that are
\* completed, past seedingStopTime and not auto-stopped; CompletedSeeding is
\* the number of auto-stopped tracked records.
C15_OverdueAndStoppedCounts ==
  [][ReportStep =>
       /\ lastCall'.report.OverdueSeeding =
            Cardinality({h \in DOMAIN trackingData :
                           /\ Completed(h)
                           /\ now > trackingData[h].SeedingStopTime
                           /\ ~trackingData[h].AutoStopped})
       /\ lastCall'.report.CompletedSeeding =
            Cardinality({h \in DOMAIN trackingData :
                           trackingData[h].AutoStopped})]_vars

C18_LoadReplacesTable ==
  [][(~isRunning /\ isRunning' /\ trackingFile.exists /\ Start(TRUE)) =>
       /\ DOMAIN trackingData' = DOMAIN trackingFile.data
       /\ trackingData' = Unmarshal(trackingFile.data, EmptyMap)]_vars

\* C19 as stated: once Stop has returned, no reconciliation tick mutates the
\* table or issues a Pause call.
C19_NoTickAfterStop ==
  [][(stopChan = "closed" /\ ~isRunning /\ TickStep) =>
       /\ trackingData' = trackingData
       /\ lastCall'.hashes = {}]_vars

\* a reconciliation tick can take the lock now
TickReady == Alive /\ LockFree /\ bgFetched > 0

\* C20 as stated: for every table and torrent list, when a tick has run and
\* returned, a second tick at the same time with the same list issues no
\* Pause call and changes no record, also when Pause calls of the first tick
\* failed.
C20_TickIdempotent ==
  TickReady =>
    \A tm \in TorrentMaps :
      LET m1 == TickTable(trackingData, tm, now, {}) IN
      /\ TickPauses(m1, tm, now) = {}
      /\ \A ok2 \in SUBSET Hashes : TickTable(m1, tm, now, ok2) = m1

\* C20 amended: when the first tick issued no Pause call, a second tick at
\* the same time with the same list issues none and changes no record; when
\* Pause calls of the first tick failed, the second tick issues exactly those
\* calls again and changes no record unless one of them now succeeds.
C20_TickIdempotentUpToRetry ==
  TickReady =>
    \A tm \in TorrentMaps :
      LET m1 == TickTable(trackingData, tm, now, {}) IN
      /\ TickPauses(m1, tm, now) = TickPauses(trackingData, tm, now)
      /\ TickTable(m1, tm, now, {}) = m1
      /\ TickPauses(trackingData, tm, now) = {} =>
           \A ok2 \in SUBSET Hashes : TickTable(m1, tm, now, ok2) = m1

\* a tick has just detected a completion and returned, and the next tick has
\* fetched its list with no time elapsed
C20_Witness ==
  /\ TickReady
  /\ lastCall.op = "CheckSeedingLimits"
  /\ lastCall.err = "nil"
  /\ \E h \in Hashes : Completed(h) /\ trackingData[h].DownloadCompleteTime = now

\* the configuration has a positive multiplier and a positive check interval
ValidSeedingConfig ==
  config.TimeMultiplier.num > 0 /\ config.CheckInterval > 0

\* C21 as stated: a configuration with a non-positive multiplier or a
\* non-positive check interval is refused by the validation with an error,
\* and the service never runs with one.
C21_InvalidConfigRejected ==
  /\ (lastCall.op = "LoadConfig" /\ lastCall.err = "nil") => ValidSeedingConfig
  /\ isRunning => ValidSeedingConfig

\* C22 as stated: a StartTracking that has returned leaves the record in the
\* table, where every later report and tick sees it; a StopTracking that has
\* returned nil leaves the hash out of the table, it comes back only through
\* a new StartTracking, and no tick pauses or changes an absent hash.
C22_TrackingIsSynchronous ==
  [][/\ \A a \in TrackArgs :
          StartTracking(a[1], a[2]) => a[1] \in DOMAIN trackingData'
     /\ \A h \in Hashes :
          (StopTracking(h) /\ lastCall'.err = "nil") =>
            h \notin DOMAIN trackingData'
     /\ \A h \in Hashes :
          (h \notin DOMAIN trackingData /\ h \in DOMAIN trackingData') =>
            (lastCall'.op = "StartTracking" /\ lastCall'.hashes = {h})
     /\ TickStep =>
          \A h \in Hashes \ DOMAIN trackingData :
            h \notin DOMAIN trackingData' /\ h \notin lastCall'.hashes
     /\ ReportStep =>
          DOMAIN lastCall'.report.Details = DOMAIN trackingData]_vars

\* C23 as stated: every reconciliation tick returns and releases the table
\* lock, also a tick that auto-stopped a record and then saves the table.
C23_TickReleasesLock ==
  /\ dataMutex # "CheckSeedingLimits"
  /\ lastCall.op = "CheckSeedingLimits" => lastCall.err # NoReturn

\* C24 as stated: the reconciliation tick does not hold the table lock while
\* a PauseTorrents call of its own is in progress.
C24_NoNetworkCallUnderLock ==
  lastCall.op = "CheckSeedingLimits" => ~lastCall.pauseUnderLock

\* C25 as stated: a reconciliation tick that changed a record has written the
\* whole table to the file when it ends, also when the change is a detected
\* completion only; a tick that changed no record writes nothing.
C25_TickSavesWhenChanged ==
  [][TickStep =>
       IF trackingData' # trackingData
         THEN /\ trackingFile'.exists
              /\ trackingFile'.data = Marshal(trackingData')
         ELSE trackingFile' = trackingFile]_vars

\* the step is a save run by a goroutine of StartTracking or StopTracking
AsyncSaveStep == pendingSaves' < pendingSaves

C27_FetchFailureAbortsTick ==
  [][FetchTorrents(FALSE) =>
       /\ lastCall'.err = "failed to get torrents"
       /\ lastCall'.hashes = {}
       /\ trackingData' = trackingData
       /\ trackingFile' = trackingFile
       /\ pendingSaves' = pendingSaves
       /\ dataMutex' = dataMutex
       /\ bgFetched' = bgFetched
       /\ bgSelect' = bgSelect
       /\ bgSelect' > 0 /\ ticker' = "active" /\ ~panicked']_vars

\* a tick failed to fetch the list while a record was overdue and not yet
\* auto-stopped, and the background goroutine waits for the next tick
C27_Witness ==
  /\ lastCall.op = "CheckSeedingLimits"
  /\ lastCall.err = "failed to get torrents"
  /\ \E h \in Hashes :
       /\ Completed(h)
       /\ ~AutoStopped(h)
       /\ now > trackingData[h].SeedingStopTime
  /\ bgSelect > 0
  /\ ticker = "active"

\* C28: for every table a tick can find and every fetched list, the tick
\* keeps every record whose hash is not in the list exactly as it is and
\* issues no Pause call for it.
C28_MissingTorrentUntouched ==
  TickReady =>
    \A tm \in TorrentMaps :
      \A pauseOk \in SUBSET Hashes :
        LET m1 == TickTable(trackingData, tm, now, pauseOk) IN
        /\ DOMAIN m1 = DOMAIN trackingData
        /\ \A h \in DOMAIN trackingData \ DOMAIN tm :
             /\ m1[h] = trackingData[h]
             /\ h \notin TickPauses(trackingData, tm, now)

\* a tick is about to run while a record is overdue and not auto-stopped,
\* after a tick that returned without pausing it
C28_Witness ==
  /\ TickReady
  /\ lastCall.op = "CheckSeedingLimits"
  /\ lastCall.err = "nil"
  /\ lastCall.hashes = {}
  /\ \E h \in Hashes :
       /\ Completed(h)
       /\ ~AutoStopped(h)
       /\ now > trackingData[h].SeedingStopTime
       /\ trackingData[h].UpdatedAt < now

\* C29: in a tick in which the Pause call for a record g fails, every other
\* record is still processed: one whose torrent is reported complete gets
\* its completion time and budget, one that is overdue and seeding gets its
\* Pause call and, when that call succeeds, is marked auto-stopped; what
\* happens to a record depends on the outcome of its own Pause call only.
C29_PauseFailureIsIsolated ==
  TickReady =>
    \A tm \in TorrentMaps :
      \A pauseOk \in SUBSET Hashes :
        \A g \in TickPauses(trackingData, tm, now) \ pauseOk :
          LET m1 == TickTable(trackingData, tm, now, pauseOk) IN
          /\ m1[g] = DetectCompletion(trackingData[g], tm[g], now)
          /\ \A h \in DOMAIN trackingData \ {g} :
               LET td == trackingData[h] IN
               /\ (Examined(td, tm) /\ IsZero(td.DownloadCompleteTime)
                     /\ IsCompleted(tm[h])) =>
                    /\ m1[h].DownloadCompleteTime = now
                    /\ m1[h].DownloadDuration = Sub(now, td.DownloadStartTime)
                    /\ m1[h].SeedingStopTime =
                         now + ScaleDuration(Sub(now, td.DownloadStartTime),
                                             TimeMultiplier)
               /\ (Examined(td, tm) /\ ~IsZero(td.DownloadCompleteTime)
                     /\ After(now, td.SeedingStopTime) /\ IsSeeding(tm[h])) =>
                    /\ h \in TickPauses(trackingData, tm, now)
                    /\ h \in pauseOk => m1[h].AutoStopped
               /\ m1[h] = TickTable(trackingData, tm, now,
                                    IF h \in pauseOk THEN Hashes ELSE {})[h]

\* a tick called PauseTorrents for both records; the call failed for one,
\* which is not auto-stopped, and succeeded for the other, which is
C29_Witness ==
  /\ lastCall.op = "CheckSeedingLimits"
  /\ lastCall.hashes = Hashes
  /\ \E g \in Hashes, h \in Hashes :
       /\ Tracked(g) /\ ~AutoStopped(g)
       /\ AutoStopped(h)
       /\ trackingData[h].UpdatedAt = now

\* the lifecycle state of the record of hash h in table m
RecordState(m, h) ==
  IF h \notin DOMAIN m THEN "Removed"
  ELSE IF m[h].AutoStopped THEN "AutoStopped"
  ELSE IF ~IsZero(m[h].DownloadCompleteTime) THEN "Completed"
  ELSE "Downloading"

\* the moves of a record: Downloading -> Completed -> AutoStopped, the
\* direct Downloading -> AutoStopped of a forced stop, and the removal of a
\* record that is Downloading or Completed
LifecycleMoves ==
  { <<"Downloading", "Completed">>, <<"Completed", "AutoStopped">>,
    <<"Downloading", "AutoStopped">>,
    <<"Downloading", "Removed">>, <<"Completed", "Removed">> }

\* C30 as stated, the forced stop of a record still downloading granted: a
\* step changes the lifecycle state of a record only along Downloading ->
\* Completed -> AutoStopped or by removing a record that is not auto-stopped;
\* no record moves backwards, and a hash that is not in the table gets a
\* record, a new one in state Downloading, only from StartTracking.
C30_LifecycleStateMachine ==
  [][\A h \in Hashes :
       LET s == RecordState(trackingData, h)
           q == RecordState(trackingData', h)
       IN s # q =>
            \/ <<s, q>> \in LifecycleMoves
            \/ /\ s = "Removed" /\ q = "Downloading"
               /\ lastCall'.op = "StartTracking" /\ lastCall'.hashes = {h}]_vars

\* C31: a step removes a record from the table only if it is a StopTracking
\* call for that hash that returns nil; ticks, forced stops, status reports,
\* saves, Start and Stop remove none, whether the record is auto-stopped or
\* not.
C31_OnlyStopTrackingRemoves ==
  [][\A h \in Hashes :
       (Tracked(h) /\ h \notin DOMAIN trackingData') =>
         /\ StopTracking(h)
         /\ lastCall'.op = "StopTracking"
         /\ lastCall'.hashes = {h}
         /\ lastCall'.err = "nil"]_vars

\* a forced stop marked a record auto-stopped and the record is in the table
C31_Witness ==
  /\ lastCall.op = "ForceStopSeeding"
  /\ \E h \in lastCall.hashes : AutoStopped(h)
  /\ \E h \in Hashes : Tracked(h) /\ ~AutoStopped(h)

\* C32: GetTrackedTorrents returns a copy of every record of the table as it
\* is at the call and leaves the table alone; no later step of the service
\* (tick, StopTracking, save) changes what the caller reads in the returned
\* map, and a write of the caller to a returned record does not change the
\* table.
C32_SnapshotIsACopy ==
  [][/\ (snapshot = NoSnapshot /\ snapshot' # NoSnapshot) =>
          /\ DOMAIN snapshot'.recs = DOMAIN trackingData
          /\ \A h \in DOMAIN trackingData :
               SnapshotView(snapshot', trackingData', h) = trackingData[h]
          /\ trackingData' = trackingData
     /\ (snapshot # NoSnapshot /\ snapshot' # NoSnapshot) =>
          IF \E h \in Hashes : ModifyReturned(h)
            THEN trackingData' = trackingData
            ELSE \A h \in DOMAIN snapshot.recs :
                   SnapshotView(snapshot', trackingData', h)
                     = SnapshotView(snapshot, trackingData, h)]_vars

\* a snapshot in which the caller edited one record that is still tracked
\* and unedited in the table, and whose other record the service has since
\* changed or removed
C32_Witness ==
  /\ snapshot # NoSnapshot
  /\ \E h \in DOMAIN snapshot.recs :
       /\ SnapshotView(snapshot, trackingData, h).Name = "Edited"
       /\ Tracked(h)
       /\ trackingData[h].Name # "Edited"
  /\ \E g \in DOMAIN snapshot.recs :
       /\ SnapshotView(snapshot, trackingData, g).Name # "Edited"
       /\ (~Tracked(g) \/ trackingData[g] # snapshot.recs[g].val)

\* C33: a save that fails rolls nothing back and the operation that asked
\* for it still reports success: a failed write leaves the table as it is,
\* and a StartTracking, StopTracking, ForceStopSeeding or tick that changed
\* the table and asked for a save returns nil with the table lock free, so
\* that later operations and ticks run.
C33_SaveFailureKeepsServing ==
  [][/\ AsyncSaveFailed => trackingData' = trackingData
     /\ ( \/ /\ lastCall'.op \in {"StartTracking", "StopTracking"}
             /\ trackingData' # trackingData
          \/ /\ lastCall'.op \in {"ForceStopSeeding", "CheckSeedingLimits"}
             /\ \E h \in Hashes :
                  /\ Tracked(h)
                  /\ ~AutoStopped(h)
                  /\ h \in DOMAIN trackingData'
                  /\ trackingData'[h].AutoStopped )
        => /\ lastCall'.err = "nil"
           /\ dataMutex' = "unlocked"]_vars

\* C34: a Start that finds no tracking file returns nil and leaves the
\* service running with an empty table.
C34_MissingFileGivesEmptyTable ==
  [][(~isRunning /\ isRunning' /\ ~trackingFile.exists) =>
       /\ lastCall'.op = "Start"
       /\ lastCall'.err = "nil"
       /\ trackingData' = EmptyMap]_vars

\* C35: Start and Stop can be cycled: a Start after a Stop returns nil, the
\* background task it starts leaves its loop only once the next Stop has
\* been called, and a Stop of the running service returns normally (Stop
\* calls that wait for the table lock aside).
C35_StartStopCycles ==
  [][/\ (~isRunning /\ LockFree /\ \E readOk \in BOOLEAN : Start(readOk)) =>
          /\ isRunning'
          /\ lastCall' = Ret("Start", {}, "nil", "")
     /\ (isRunning /\ LockFree /\ \E saveOk \in BOOLEAN : Stop(saveOk)) =>
          /\ ~panicked'
          /\ ~isRunning'
     /\ (bgSelect = 1 /\ bgFetched = 0 /\ runningMutex = "unlocked"
           /\ BackgroundExit) => ~isRunning]_vars

\* C36: at most one background task exists at any time and two ticks never
\* run side by side; a Start of the running service returns an error and
\* starts nothing, a Stop of the stopped service returns nil and changes
\* nothing.
C36_AtMostOneBackgroundTask ==
  [][/\ (isRunning /\ \E readOk \in BOOLEAN : Start(readOk)) =>
          /\ lastCall'.err = "seeding service is already running"
          /\ UNCHANGED << bgSelect, bgFetched, isRunning, ticker, trackingData >>
     /\ (~isRunning /\ \E saveOk \in BOOLEAN : Stop(saveOk)) =>
          /\ lastCall' = Ret("Stop", {}, "nil", "")
          /\ UNCHANGED << bgSelect, bgFetched, isRunning, ticker, stopChan,
                          trackingData, trackingFile >>
     /\ bgSelect' + bgFetched' <= 1]_vars

\* C37: IsRunning() is true only while the background task is alive: when
\* no background task is left, after Stop or after the context was
\* cancelled, IsRunning() returns false (a task blocked for ever in a tick
\* counts as alive).
C37_IsRunningOnlyWhileAlive ==
  (LockFree /\ bgSelect + bgFetched = 0) => ~IsRunning

\* C38: for every table a tick can find and every fetched list, whatever
\* state the list reports, the tick issues no Pause call for a record whose
\* autoStopped is true and keeps the record exactly as it is.
C38_AutoStoppedLeftAlone ==
  TickReady =>
    \A tm \in TorrentMaps :
      \A pauseOk \in SUBSET Hashes :
        \A h \in DOMAIN trackingData :
          trackingData[h].AutoStopped =>
            /\ h \notin TickPauses(trackingData, tm, now)
            /\ TickTable(trackingData, tm, now, pauseOk)[h] = trackingData[h]

\* a tick is about to run, after a tick that returned, on a table with an
\* auto-stopped record that is past its stop time
C38_Witness ==
  /\ TickReady
  /\ lastCall.op = "CheckSeedingLimits"
  /\ lastCall.err = "nil"
  /\ \E h \in Hashes :
       /\ AutoStopped(h)
       /\ Completed(h)
       /\ now > trackingData[h].SeedingStopTime

\* C39: for every table a tick can find and every fetched list, a record
\* that is completed, not auto-stopped and past its seedingStopTime, and
\* whose torrent the list reports as not seeding, gets no Pause call and is
\* kept exactly as it is by the tick (autoStopped stays false), and a
\* status report on the same list counts it as overdue.
C39_OverdueNotSeedingLeftAlone ==
  TickReady =>
    \A tm \in TorrentMaps :
      \A h \in DOMAIN trackingData \cap DOMAIN tm :
        ( /\ Completed(h)
          /\ ~AutoStopped(h)
          /\ After(now, trackingData[h].SeedingStopTime)
          /\ ~IsSeeding(tm[h]) ) =>
          /\ h \notin TickPauses(trackingData, tm, now)
          /\ \A pauseOk \in SUBSET Hashes :
               LET m1 == TickTable(trackingData, tm, now, pauseOk)
                   report == StatusReport(m1, tm, now)
               IN /\ m1[h] = trackingData[h]
                  /\ ~m1[h].AutoStopped
                  /\ report.Details[h].IsOverdue
                  /\ ~report.Details[h].AutoStopped
                  /\ report.OverdueSeeding >= 1

\* a running service whose last status report counted as overdue a record
\* that is completed, not auto-stopped, and whose torrent was reported as
\* paused
C39_Witness ==
  /\ isRunning
  /\ LockFree
  /\ lastCall.op = "GetSeedingStatus"
  /\ lastCall.err = "nil"
  /\ lastCall.report.OverdueSeeding >= 1
  /\ \E h \in DOMAIN lastCall.report.Details :
       /\ lastCall.report.Details[h].IsOverdue
       /\ lastCall.report.Details[h].CurrentState = "Paused (Complete)"
       /\ Completed(h)
       /\ ~AutoStopped(h)
       /\ After(now, trackingData[h].SeedingStopTime)
====
